---- MODULE Spec2Model ----
(***************************************************************************)
(* Model of amg's session scan (src/cli/scan.rs): SortedWalk, the walker   *)
(* over the codex directory, and find_first_session, which reads the first *)
(* line of every *.jsonl file the walker yields and returns the first      *)
(* session recorded for the target branch; and of the command line around  *)
(* it (src/cli/args.rs, mod.rs, util.rs, codex_cmd.rs, process.rs), which  *)
(* parses the arguments, finds the session and prints or runs codex.       *)
(*                                                                         *)
(* Text is modelled as sequences of one-character strings, paths as        *)
(* sequences of components, so that substring search, trimming, JSON       *)
(* escapes and the two path orders are computed, not assumed.              *)
(***************************************************************************)
EXTENDS Integers, Sequences, FiniteSets, TLC

VARIABLES rootKind, tree, branch, pc, heap, cur, yielded, popped, listed, opened,
          result, run, prev,
          argv, opts, cpc, env, cmd, stdout, spawned, exit

\* The state of the command line: the arguments given, the parsed command,
\* the position in run_resume_branch, what has been read of the
\* environment, the command built, the lines printed, the processes
\* spawned and the exit code.
cliVars == <<argv, opts, cpc, env, cmd, stdout, spawned, exit>>

vars == <<rootKind, tree, branch, pc, heap, cur, yielded, popped, listed, opened,
          result, run, prev, cliVars>>

(***************************************************************************)
(* Bounds of the model.                                                    *)
(***************************************************************************)
\* Most entries present below the root in one tree.
MaxEntries == 3
\* Invocations of find_first_session in one behaviour.
MaxRuns == 2

(***************************************************************************)
(* Characters and byte order.                                              *)
(***************************************************************************)
\* The characters used in entry names, in ascending byte value.
AsciiOrder == <<"-", ".", "/", "J", "L", "N", "O", "S",
                "a", "b", "j", "l", "n", "o", "r", "s", "x">>

ByteOf(c) == CHOOSE i \in 1..Len(AsciiOrder) : AsciiOrder[i] = c

\* Byte-wise lexicographic "less than" on character sequences (str / OsStr Ord).
RECURSIVE BytesLess(_, _)
BytesLess(s, t) ==
    IF t = <<>> THEN FALSE
    ELSE IF s = <<>> THEN TRUE
    ELSE IF ByteOf(Head(s)) # ByteOf(Head(t)) THEN ByteOf(Head(s)) < ByteOf(Head(t))
    ELSE BytesLess(Tail(s), Tail(t))

(***************************************************************************)
(* Paths.                                                                  *)
(***************************************************************************)
nR == <<"r">>
nA == <<"a">>
nAjsonl == <<"a", ".", "j", "s", "o", "n", "l">>
nBjsonl == <<"b", ".", "j", "s", "o", "n", "l">>
nXjsonl == <<"x", ".", "j", "s", "o", "n", "l">>
nBJSONL == <<"b", ".", "J", "S", "O", "N", "L">>
nBjson == <<"b", ".", "j", "s", "o", "n">>

\* codexdir, the root handed to find_first_session.
Root == <<nR>>

\* The entries a tree may have below the root.
Slots == { <<nR, nA>>, <<nR, nA, nXjsonl>>, <<nR, nAjsonl>>, <<nR, nBjsonl>>,
           <<nR, nBJSONL>>, <<nR, nBjson>> }

Parent(p) == SubSeq(p, 1, Len(p) - 1)

\* The path as text: components separated by "/".
RECURSIVE PathStr(_)
PathStr(p) ==
    IF Len(p) = 1 THEN p[1]
    ELSE PathStr(Parent(p)) \o <<"/">> \o p[Len(p)]

\* PathBuf's Ord: component by component, each component by bytes.
RECURSIVE PathLess(_, _)
PathLess(p, q) ==
    IF q = <<>> THEN FALSE
    ELSE IF p = <<>> THEN TRUE
    ELSE IF Head(p) # Head(q) THEN BytesLess(Head(p), Head(q))
    ELSE PathLess(Tail(p), Tail(q))

\* Order of the whole path text, byte by byte.
StrLess(p, q) == BytesLess(PathStr(p), PathStr(q))

\* Path::extension of the last component: the text after the final ".", none
\* when there is no "." or the only "." is the first character.
LastDot(name) ==
    IF \E i \in 1..Len(name) : name[i] = "."
    THEN CHOOSE i \in 1..Len(name) :
            name[i] = "." /\ \A j \in (i + 1)..Len(name) : name[j] # "."
    ELSE 0

extension(p) ==
    LET name == p[Len(p)]
        d == LastDot(name)
    IN  IF d <= 1 THEN [has |-> FALSE, ext |-> <<>>]
        ELSE [has |-> TRUE, ext |-> SubSeq(name, d + 1, Len(name))]

\* ASCII lower case of a character.
to_ascii_lowercase(c) ==
    CASE c = "J" -> "j"
      [] c = "L" -> "l"
      [] c = "N" -> "n"
      [] c = "O" -> "o"
      [] c = "S" -> "s"
      [] OTHER   -> c

\* is_jsonl with eq_ignore_ascii_case in the place of ==.
is_jsonl_ignore_case(p) ==
    LET e == extension(p) IN
    /\ e.has
    /\ [i \in 1..Len(e.ext) |-> to_ascii_lowercase(e.ext[i])] = <<"j", "s", "o", "n", "l">>

is_jsonl(p) == extension(p) = [has |-> TRUE, ext |-> <<"j", "s", "o", "n", "l">>]

(***************************************************************************)
(* The text of a first line.  A JSON string is a sequence of units, each   *)
(* written literally, as a backslash escape, or as a \uXXXX escape.        *)
(***************************************************************************)
Lit(s) == [i \in 1..Len(s) |-> [k |-> "lit", c |-> s[i]]]

\* The four hex digits of the \u escape of a character.
Hex4(c) ==
    CASE c = "f" -> <<"0", "0", "6", "6">>
      [] c = "m" -> <<"0", "0", "6", "d">>
      [] c = "x" -> <<"0", "0", "7", "8">>
      [] c = "/" -> <<"0", "0", "2", "f">>

RawUnit(u) ==
    CASE u.k = "lit" -> <<u.c>>
      [] u.k = "bs"  -> <<"\\", u.c>>
      [] u.k = "u"   -> <<"\\", "u">> \o Hex4(u.c)

RECURSIVE RawStr(_)
RawStr(js) == IF js = <<>> THEN <<>> ELSE RawUnit(Head(js)) \o RawStr(Tail(js))

\* What serde_json decodes a JSON string to: every unit stands for its character.
DecodeStr(js) == [i \in 1..Len(js) |-> js[i].c]

Quoted(s) == <<"\"">> \o s \o <<"\"">>

kPayload == <<"p", "a", "y", "l", "o", "a", "d">>
kGit == <<"g", "i", "t">>
kBranch == <<"b", "r", "a", "n", "c", "h">>
kCwd == <<"c", "w", "d">>
kId == <<"i", "d">>

Member(key, value) == Quoted(key) \o <<":">> \o value

RECURSIVE JoinComma(_)
JoinComma(ms) ==
    IF ms = <<>> THEN <<>>
    ELSE IF Len(ms) = 1 THEN ms[1]
    ELSE ms[1] \o <<",">> \o JoinComma(Tail(ms))

Object(ms) == <<"{">> \o JoinComma(ms) \o <<"}">>

NoStr == [has |-> FALSE, s |-> <<>>]
Str(js) == [has |-> TRUE, s |-> js]

\* A first line: text that is no JSON value, an object whose payload is a
\* string, or an object with a payload object and the fields it has.
TextLine(raw) ==
    [t |-> "text", raw |-> raw, git |-> FALSE, branch |-> NoStr, cwd |-> NoStr, id |-> NoStr]
ShapeLine(js) ==
    [t |-> "shape", raw |-> <<>>, git |-> FALSE, branch |-> Str(js), cwd |-> NoStr, id |-> NoStr]
EventLine(git, b, c, i) ==
    [t |-> "event", raw |-> <<>>, git |-> git, branch |-> b, cwd |-> c, id |-> i]

OptMember(key, f) == IF f.has THEN <<Member(key, Quoted(RawStr(f.s)))>> ELSE <<>>

\* The characters of the line as they stand in the file.
Raw(line) ==
    CASE line.t = "text"  -> line.raw
      [] line.t = "shape" -> Object(<<Member(kPayload, Quoted(RawStr(line.branch.s)))>>)
      [] line.t = "event" ->
            Object(<<Member(kPayload,
                Object((IF line.git
                        THEN <<Member(kGit, Object(OptMember(kBranch, line.branch)))>>
                        ELSE <<>>)
                       \o OptMember(kCwd, line.cwd)
                       \o OptMember(kId, line.id)))>>)

\* serde_json::from_str::<Event>: an error for text that is no JSON and for a
\* payload of the wrong type, otherwise the Option fields that are present.
from_str(line) ==
    IF line.t # "event"
    THEN [ok |-> FALSE, branch |-> NoStr, cwd |-> NoStr, id |-> NoStr]
    ELSE [ok |-> TRUE,
          branch |-> IF line.git /\ line.branch.has
                     THEN Str(DecodeStr(line.branch.s)) ELSE NoStr,
          cwd |-> IF line.cwd.has THEN Str(DecodeStr(line.cwd.s)) ELSE NoStr,
          id |-> IF line.id.has THEN Str(DecodeStr(line.id.s)) ELSE NoStr]

\* str::contains
Contains(hay, needle) ==
    \E i \in 0..(Len(hay) - Len(needle)) : SubSeq(hay, i + 1, i + Len(needle)) = needle

\* str::trim
RECURSIVE TrimStart(_)
TrimStart(s) == IF s # <<>> /\ Head(s) = " " THEN TrimStart(Tail(s)) ELSE s

RECURSIVE TrimEnd(_)
TrimEnd(s) ==
    IF s # <<>> /\ s[Len(s)] = " " THEN TrimEnd(SubSeq(s, 1, Len(s) - 1)) ELSE s

Trim(s) == TrimEnd(TrimStart(s))

\* The structured check of parse_session_first_line without the substring
\* check before it.
structured_check(line, b) ==
    LET ev == from_str(line) IN
    IF ~ev.ok \/ ~ev.branch.has \/ ~ev.cwd.has \/ ~ev.id.has
    THEN [some |-> FALSE, cwd |-> <<>>, id |-> <<>>]
    ELSE LET c == Trim(ev.cwd.s)
             i == Trim(ev.id.s)
         IN  IF ev.branch.s = b /\ c # <<>> /\ i # <<>>
             THEN [some |-> TRUE, cwd |-> c, id |-> i]
             ELSE [some |-> FALSE, cwd |-> <<>>, id |-> <<>>]

\* parse_session_first_line, were the branch trimmed before it is compared.
parse_trimmed_branch(line, b) ==
    IF ~Contains(Raw(line), b) THEN [some |-> FALSE, cwd |-> <<>>, id |-> <<>>]
    ELSE LET ev == from_str(line) IN
         IF ~ev.ok \/ ~ev.branch.has \/ ~ev.cwd.has \/ ~ev.id.has
         THEN [some |-> FALSE, cwd |-> <<>>, id |-> <<>>]
         ELSE LET c == Trim(ev.cwd.s)
                  i == Trim(ev.id.s)
              IN  IF Trim(ev.branch.s) = b /\ c # <<>> /\ i # <<>>
                  THEN [some |-> TRUE, cwd |-> c, id |-> i]
                  ELSE [some |-> FALSE, cwd |-> <<>>, id |-> <<>>]

NoSession == [some |-> FALSE, cwd |-> <<>>, id |-> <<>>]

parse_session_first_line(line, b) ==
    IF ~Contains(Raw(line), b) THEN NoSession
    ELSE LET ev == from_str(line) IN
         IF ~ev.ok \/ ~ev.branch.has \/ ~ev.cwd.has \/ ~ev.id.has THEN NoSession
         ELSE LET c == Trim(ev.cwd.s)
                  i == Trim(ev.id.s)
              IN  IF ev.branch.s = b /\ c # <<>> /\ i # <<>>
                  THEN [some |-> TRUE, cwd |-> c, id |-> i]
                  ELSE NoSession

(***************************************************************************)
(* The first lines the files of a tree are drawn from.                     *)
(***************************************************************************)
bFx == <<"f", "/", "x">>
bM == <<"m">>
Targets == {bFx, bM}

sW == Lit(<<"/", "w">>)
sS == Lit(<<"s">>)
sHome == Lit(<<"/", "f", "/", "x">>)

Lines == [
    garbage  |-> TextLine(<<"{">> \o Quoted(kPayload) \o <<":">> \o bFx),
    shape    |-> ShapeLine(Lit(bFx)),
    nogit    |-> EventLine(FALSE, NoStr, Str(sHome), Str(sS)),
    blankcwd |-> EventLine(TRUE, Str(Lit(bFx)), Str(Lit(<<" ", " ">>)), Str(sS)),
    match    |-> EventLine(TRUE, Str(Lit(bFx)), Str(sW), Str(sS)),
    padded   |-> EventLine(TRUE, Str(Lit(bFx)), Str(Lit(<<" ", "/", "v", " ">>)),
                           Str(Lit(<<" ", "s">>))),
    escaped  |-> EventLine(TRUE,
                    Str(<<[k |-> "lit", c |-> "f"], [k |-> "bs", c |-> "/"],
                          [k |-> "lit", c |-> "x"]>>),
                    Str(sW), Str(sS)),
    unicode  |-> EventLine(TRUE,
                    Str(<<[k |-> "u", c |-> "f"], [k |-> "lit", c |-> "/"],
                          [k |-> "lit", c |-> "x"]>>),
                    Str(sHome), Str(sS)),
    upper    |-> EventLine(TRUE, Str(Lit(<<"F", "/", "x">>)), Str(sHome), Str(sS)),
    spaced   |-> EventLine(TRUE, Str(Lit(<<" ", "f", "/", "x">>)), Str(sW), Str(sS)),
    main     |-> EventLine(TRUE, Str(Lit(bM)), Str(sHome), Str(Lit(<<"t">>))),
    late     |-> EventLine(TRUE, Str(Lit(<<"F", "/", "x">>)), Str(sHome), Str(sS)),
    more     |-> EventLine(TRUE, Str(Lit(bFx)), Str(sW), Str(sS))
]

\* The lines after the first: a file "late" has the matching record as its
\* second line, a file "more" a record of another branch and a line that is
\* no JSON; every other file has one line.
LaterLines(content) ==
    CASE content = "late" -> <<Lines.match>>
      [] content = "more" -> <<Lines.main, Lines.garbage>>
      [] OTHER            -> <<>>

\* The lines of a file whose first line is one of Lines.
FileLines(content) == <<Lines[content]>> \o LaterLines(content)

\* What a file holds: it cannot be opened, it has no line, its first line is
\* not UTF-8, or its first line is one of Lines.
Contents == {"unopenable", "empty", "nonutf8"} \cup DOMAIN Lines

(***************************************************************************)
(* The file system the scan reads: the kind of the root and of every entry *)
(* below it.  Kinds: a regular file, a directory, a directory that cannot  *)
(* be listed, a symbolic link to a file or to a directory, an entry whose  *)
(* metadata cannot be read, and a file that is none of these (a fifo).     *)
(***************************************************************************)
Absent == [kind |-> "absent", content |-> "-"]
Node(kind) == [kind |-> kind, content |-> "-"]
FileNode(kind, content) == [kind |-> kind, content |-> content]

DirKinds == {"dir", "dirNoList", "symDir"}

HasSlotsBelow(p) == \E q \in Slots : Parent(q) = p

\* The names that are no record-file names: extension JSONL, extension json.
OtherNames == {nBJSONL, nBjson}

\* What an entry may be.  A symbolic link to a file points at a matching
\* record; an entry with the name of a directory of the tree may also be a
\* directory that cannot be listed, a link to a directory or a fifo; an
\* entry with one of OtherNames is a regular file with a matching record;
\* an entry below a directory of the tree has no metadata or is a regular
\* file with a matching record or with text that is no record.
NodeOptions(p) ==
    IF p[Len(p)] \in OtherNames THEN {Absent, FileNode("file", "match")}
    ELSE IF Parent(p) # Root
    THEN {Absent, Node("noMeta"), FileNode("file", "match"), FileNode("file", "garbage")}
    ELSE {Absent, Node("noMeta"), Node("dir"), FileNode("symFile", "match")}
         \cup (IF HasSlotsBelow(p)
               THEN {Node("dirNoList"), Node("symDir"), Node("other"),
                     FileNode("file", "match")}
               ELSE {FileNode("file", c) : c \in Contents})

RootKinds == {"dir", "dirNoList", "symDir", "file", "missing"}

\* The slots, every directory before the entries below it.
SlotSeq == << <<nR, nA>>, <<nR, nA, nXjsonl>>, <<nR, nAjsonl>>, <<nR, nBjsonl>>,
             <<nR, nBJSONL>>, <<nR, nBjson>> >>

SlotIx(p) == CHOOSE i \in 1..Len(SlotSeq) : SlotSeq[i] = p

Present(ns) == Cardinality({i \in 1..Len(ns) : ns[i] # Absent})

\* An entry exists only below a directory (or a link to one), and a tree has
\* at most MaxEntries entries.
FitsBelow(ns, p, n) ==
    \/ n = Absent
    \/ /\ Present(ns) < MaxEntries
       /\ Parent(p) # Root => ns[SlotIx(Parent(p))].kind \in DirKinds

RECURSIVE NodesUpTo(_)
NodesUpTo(k) ==
    IF k = 0 THEN {<<>>}
    ELSE {Append(ns, n) : <<ns, n>> \in
            {x \in NodesUpTo(k - 1) \X NodeOptions(SlotSeq[k]) :
                FitsBelow(x[1], SlotSeq[k], x[2])}}

EmptyTree == [p \in Slots |-> Absent]

Trees == {[p \in Slots |-> ns[SlotIx(p)]] : ns \in NodesUpTo(Len(SlotSeq))}

NodeAt(p) ==
    IF p = Root
    THEN (IF rootKind = "missing" THEN Absent ELSE Node(rootKind))
    ELSE IF p \in Slots THEN tree[p] ELSE Absent

\* fs::metadata in the place of fs::symlink_metadata: a link is followed.
metadata(p) ==
    LET k == NodeAt(p).kind IN
    [ok |-> k \notin {"absent", "noMeta"},
     is_symlink |-> FALSE,
     is_dir |-> k \in {"dir", "dirNoList", "symDir"},
     is_file |-> k \in {"file", "symFile"}]

\* An lstat that still follows a link to a directory.
symlink_metadata_through_dir_links(p) ==
    LET k == NodeAt(p).kind IN
    [ok |-> k \notin {"absent", "noMeta"},
     is_symlink |-> k = "symFile",
     is_dir |-> k \in {"dir", "dirNoList", "symDir"},
     is_file |-> k = "file"]

\* fs::symlink_metadata: the entry itself, never the target of a link.
symlink_metadata(p) ==
    LET k == NodeAt(p).kind IN
    [ok |-> k \notin {"absent", "noMeta"},
     is_symlink |-> k \in {"symFile", "symDir"},
     is_dir |-> k \in {"dir", "dirNoList"},
     is_file |-> k = "file"]

\* A read_dir that returns the entry `.` too, the directory itself.
read_dir_with_dot(p) ==
    IF NodeAt(p).kind \in {"dir", "symDir"}
    THEN [ok |-> TRUE, entries |-> {q \in Slots : Parent(q) = p /\ tree[q] # Absent} \cup {p}]
    ELSE [ok |-> FALSE, entries |-> {}]

\* fs::read_dir: follows a link; fails on what is no listable directory.
\* ReadDir::flatten and DirEntry::path give the paths of the entries.
read_dir(p) ==
    IF NodeAt(p).kind \in {"dir", "symDir"}
    THEN [ok |-> TRUE, entries |-> {q \in Slots : Parent(q) = p /\ tree[q] # Absent}]
    ELSE [ok |-> FALSE, entries |-> {}]

\* A reader that takes the last line of the file, as lines().last() would.
read_last_line(p) ==
    LET n == NodeAt(p) IN
    IF n.kind \notin {"file", "symFile"} \/ n.content \in {"unopenable", "nonutf8"}
    THEN [ok |-> FALSE, some |-> FALSE, line |-> TextLine(<<>>)]
    ELSE IF n.content = "empty"
    THEN [ok |-> TRUE, some |-> FALSE, line |-> TextLine(<<>>)]
    ELSE LET ls == FileLines(n.content) IN
         [ok |-> TRUE, some |-> TRUE, line |-> ls[Len(ls)]]

\* read_first_line: File::open follows a link; Ok(None) for a file without
\* lines, an error for a file that cannot be opened or whose first line
\* cannot be read as UTF-8; otherwise lines().next(), the first line.
read_first_line(p) ==
    LET n == NodeAt(p) IN
    IF n.kind \notin {"file", "symFile"} \/ n.content \in {"unopenable", "nonutf8"}
    THEN [ok |-> FALSE, some |-> FALSE, line |-> TextLine(<<>>)]
    ELSE IF n.content = "empty"
    THEN [ok |-> TRUE, some |-> FALSE, line |-> TextLine(<<>>)]
    ELSE [ok |-> TRUE, some |-> TRUE, line |-> Head(FileLines(n.content))]

NoMatch == [some |-> FALSE, cwd |-> <<>>, id |-> <<>>, source_jsonl |-> <<>>]

\* parse_session_first_line on every line a file can hold and every target,
\* worked out once.
ParsedLines ==
    [line \in {Lines[c] : c \in DOMAIN Lines} |->
        [b \in Targets |-> parse_session_first_line(line, b)]]

session_from_jsonl(source_jsonl, b) ==
    LET fl == read_first_line(source_jsonl) IN
    IF ~fl.ok \/ ~fl.some THEN NoMatch
    ELSE LET s == ParsedLines[fl.line][b] IN
         IF ~s.some THEN NoMatch
         ELSE [some |-> TRUE, cwd |-> s.cwd, id |-> s.id, source_jsonl |-> source_jsonl]

(***************************************************************************)
(* SortedWalk.                                                             *)
(***************************************************************************)
\* SortedWalk::new without the listing of the root.
new_unchecked(root) == [ok |-> TRUE, heap |-> {root}]

\* A new that keeps what its read_dir listed: the heap holds the entries
\* of the root, and the root is not read again.
new_with_listing(root) ==
    IF read_dir(root).ok THEN [ok |-> TRUE, heap |-> read_dir(root).entries]
    ELSE [ok |-> FALSE, heap |-> {}]

\* SortedWalk::new: fails when the root cannot be listed, else the heap
\* holds the root alone.
SortedWalk_new(root) ==
    IF read_dir(root).ok THEN [ok |-> TRUE, heap |-> {root}]
    ELSE [ok |-> FALSE, heap |-> {}]

\* A pop that takes the pending paths in any order, as a Vec filled in the
\* order read_dir returns the entries would.
pop_any(h) == h

\* The pop of a BinaryHeap<PathBuf> without Reverse: the greatest path.
pop_greatest(h) == {p \in h : \A q \in h : q = p \/ PathLess(q, p)}

\* PathBuf's Ord on the paths of the tree, as a table: the paths greater
\* than each path.
PathOrder == [p \in Slots \cup {Root} |-> {q \in Slots \cup {Root} : PathLess(p, q)}]

\* BinaryHeap<Reverse<PathBuf>>::pop: the least path of the heap.
HeapPop(h) == {p \in h : \A q \in h : q = p \/ q \in PathOrder[p]}

\* next(), were a path that cannot be read the end of the walk.
next_iter_stop(path, rest) ==
    LET meta == symlink_metadata(path) IN
    IF ~meta.ok THEN [step |-> "nometa", heap |-> {}]
    ELSE IF meta.is_symlink THEN [step |-> "symlink", heap |-> rest]
    ELSE IF meta.is_dir
    THEN LET rd == read_dir(path) IN
         IF ~rd.ok THEN [step |-> "unlistable", heap |-> {}]
         ELSE [step |-> "expand", heap |-> rest \cup rd.entries]
    ELSE IF meta.is_file THEN [step |-> "yield", heap |-> rest]
    ELSE [step |-> "other", heap |-> rest]

\* next(), were a listed directory left in the heap.
next_iter_repush(path, rest) ==
    LET meta == symlink_metadata(path) IN
    IF ~meta.ok THEN [step |-> "nometa", heap |-> rest]
    ELSE IF meta.is_symlink THEN [step |-> "symlink", heap |-> rest]
    ELSE IF meta.is_dir
    THEN LET rd == read_dir(path) IN
         IF ~rd.ok THEN [step |-> "unlistable", heap |-> rest]
         ELSE [step |-> "expand", heap |-> rest \cup rd.entries \cup {path}]
    ELSE IF meta.is_file THEN [step |-> "yield", heap |-> rest]
    ELSE [step |-> "other", heap |-> rest]

\* One turn of the loop of next() on the popped path; rest is the heap
\* without it.
next_iter(path, rest) ==
    LET meta == symlink_metadata(path) IN
    IF ~meta.ok THEN [step |-> "nometa", heap |-> rest]
    ELSE IF meta.is_symlink THEN [step |-> "symlink", heap |-> rest]
    ELSE IF meta.is_dir
    THEN LET rd == read_dir(path) IN
         IF ~rd.ok THEN [step |-> "unlistable", heap |-> rest]
         ELSE [step |-> "expand", heap |-> rest \cup rd.entries]
    ELSE IF meta.is_file THEN [step |-> "yield", heap |-> rest]
    ELSE [step |-> "other", heap |-> rest]

(***************************************************************************)
(* find_first_session, one step at a time.                                 *)
(***************************************************************************)
Pending == [kind |-> "pending", dir |-> <<>>, cwd |-> <<>>, id |-> <<>>, source_jsonl |-> <<>>]
Err(dir) == [kind |-> "err", dir |-> dir, cwd |-> <<>>, id |-> <<>>, source_jsonl |-> <<>>]
OkNone == [kind |-> "none", dir |-> <<>>, cwd |-> <<>>, id |-> <<>>, source_jsonl |-> <<>>]
OkSome(s) ==
    [kind |-> "some", dir |-> <<>>, cwd |-> s.cwd, id |-> s.id, source_jsonl |-> s.source_jsonl]

\* The first candidate alone decides, as next().and_then(..) would.
first_only_step(s) ==
    IF s.some THEN [pc |-> "done", result |-> OkSome(s)]
    ELSE [pc |-> "done", result |-> OkNone]

\* A search that records the session and goes on to the end of the walk, as
\* filter_map(..).last() would.
last_match_step(s) ==
    IF s.some THEN [pc |-> "walking", result |-> OkSome(s)]
    ELSE [pc |-> "walking", result |-> Pending]

\* find_map: a candidate that gives no session lets the scan go on, a
\* session ends it.
find_map_step(s) ==
    IF s.some THEN [pc |-> "done", result |-> OkSome(s)]
    ELSE [pc |-> "walking", result |-> Pending]

(***************************************************************************)
(* Commands (process.rs).  A word is a sequence of pieces: a character, or *)
(* a literal of the program that holds no single quote.                    *)
(***************************************************************************)
W(s) == <<s>>

\* A quoting that wraps the word and leaves its single quotes as they are.
sh_quote_wrap_only(w) == <<"'">> \o w \o <<"'">>

\* sh_quote_lossy
sh_quote_lossy(w) ==
    IF w = <<>> THEN <<"'", "'">>
    ELSE IF \A i \in DOMAIN w : w[i] # "'" THEN <<"'">> \o w \o <<"'">>
    ELSE LET RECURSIVE replace(_)
             replace(t) ==
                 IF t = <<>> THEN <<>>
                 ELSE (IF Head(t) = "'" THEN <<"'", "\\", "'", "'">> ELSE <<Head(t)>>)
                      \o replace(Tail(t))
         IN  <<"'">> \o replace(w) \o <<"'">>

RECURSIVE JoinSpace(_)
JoinSpace(ws) ==
    IF ws = <<>> THEN <<>>
    ELSE IF Len(ws) = 1 THEN ws[1]
    ELSE ws[1] \o <<" ">> \o JoinSpace(Tail(ws))

\* Cmd::as_shell_string
as_shell_string(c) ==
    LET words == <<c.program>> \o c.args IN
    JoinSpace([i \in DOMAIN words |-> sh_quote_lossy(words[i])])

\* tmux_new_window_cmd without the -c option.
tmux_cmd_no_start_dir(start_dir, c) ==
    [program |-> W("tmux"), args |-> <<W("new-window"), c.program>> \o c.args]

\* tmux_new_window_cmd
tmux_new_window_cmd(start_dir, c) ==
    [program |-> W("tmux"),
     args |-> <<W("new-window"), W("-c"), start_dir, c.program>> \o c.args]

\* The process run_tmux_new_window spawns: tmux, in the directory of amg.
run_tmux_new_window(start_dir, c) ==
    [program |-> W("tmux"),
     args |-> <<W("new-window")>> \o <<W("-c")>> \o <<start_dir>> \o <<c.program>> \o c.args,
     current_dir |-> <<>>]

\* The process run_in_dir spawns: the command, in the given directory.
run_in_dir(cwd, c) == [program |-> c.program, args |-> c.args, current_dir |-> cwd]

\* What status() of a spawned process gives: it could not be spawned, it
\* ended with code 0, with another code, or by a signal.
Statuses == {"nospawn", "zero", "nonzero", "signal"}

\* exit_code: the code of the child, FAILURE when it has none.
exit_code(status) ==
    CASE status = "zero"    -> "success"
      [] status = "nonzero" -> "child_code"
      [] status = "signal"  -> "failure"

(***************************************************************************)
(* build_codex_cmd (codex_cmd.rs).  facts tells which of the optional      *)
(* directories exist: the git directory of the repo and of the session     *)
(* cwd, <cwd>/.codex, and the sandbox directories.                         *)
(***************************************************************************)
add_dir(dir) == <<W("--add-dir"), dir>>

\* An add_dir_if_dir that does not look at the directory.
add_dir_always(is_dir, dir) == add_dir(dir)

add_dir_if_dir(is_dir, dir) == IF is_dir THEN add_dir(dir) ELSE <<>>

\* What <worktree>/.git is: nothing, a directory, a file that names a
\* directory after `gitdir:`, such a file whose directory does not exist,
\* or a link.
GitKinds == {"none", "dir", "gitfile", "dangling", "link"}

\* The directory a gitfile names.
gitdirPath == <<"/", "m", "/">> \o W(".git") \o W("/worktrees/") \o <<"w">>

\* git_dir_from_gitfile: the directory named, when it is a directory.
git_dir_from_gitfile(worktree, kind) ==
    IF kind = "gitfile" THEN Str(gitdirPath) ELSE NoStr

\* git_dir_for_worktree
git_dir_for_worktree(worktree, kind) ==
    IF kind = "dir" THEN Str(worktree \o <<"/">> \o W(".git"))
    ELSE IF kind \in {"gitfile", "dangling"} THEN git_dir_from_gitfile(worktree, kind)
    ELSE NoStr

\* add_git_dir
add_git_dir(worktree, kind) ==
    LET gitdir == git_dir_for_worktree(worktree, kind) IN
    IF gitdir.has THEN add_dir(gitdir.s) ELSE <<>>

\* HOME_SANDBOX_DIRS and EXTRA_SANDBOX_DIRS
HOME_SANDBOX_DIRS == <<W(".cargo"), W(".rustup"), W("Library/Caches/Mozilla.sccache"), W(".npm")>>
EXTRA_SANDBOX_DIRS == <<W("/tmp"), W("/var/folders")>>

\* Path::join
join(dir, rel) == dir \o <<"/">> \o rel

RECURSIVE add_dirs_if_dir(_, _)
add_dirs_if_dir(dirs, existing) ==
    IF dirs = <<>> THEN <<>>
    ELSE add_dir_if_dir(Head(dirs) \in existing, Head(dirs))
         \o add_dirs_if_dir(Tail(dirs), existing)

build_codex_cmd(repo, codexdir, session, home, facts) ==
    [program |-> W("codex"),
     args |->
        <<W("--search"), W("-a"), W("on-failure"), W("-s"), W("workspace-write"),
          W("--config"), W("model=gpt-5.2-codex"),
          W("--config"), W("model_reasoning_effort=high"),
          W("--config"), W("sandbox_workspace_write.network_access=true")>>
        \o add_dir(repo)
        \o add_git_dir(repo, facts.repo_git)
        \o add_dir(codexdir)
        \o add_dir(session.cwd)
        \o <<W("--cd"), session.cwd>>
        \o add_git_dir(session.cwd, facts.cwd_git)
        \o add_dir_if_dir(facts.cwd_codex, join(session.cwd, W(".codex")))
        \o add_dirs_if_dir(
              (IF home.has
               THEN [i \in DOMAIN HOME_SANDBOX_DIRS |-> join(home.s, HOME_SANDBOX_DIRS[i])]
               ELSE <<>>)
              \o EXTRA_SANDBOX_DIRS, facts.sandbox)
        \o <<W("resume"), session.id>>]

(***************************************************************************)
(* The environment (util.rs).  A variable is unset, set to the empty       *)
(* string, or set to a value.                                              *)
(***************************************************************************)
EnvStates == {"unset", "empty", "set"}

homePath == <<"/", "h">>

\* home_dir
home_dir(HOME) == IF HOME = "set" THEN Str(homePath) ELSE NoStr

\* default_codexdir
default_codexdir(HOME) ==
    IF HOME = "set" THEN [ok |-> TRUE, path |-> join(homePath, W(".codex"))]
    ELSE [ok |-> FALSE, path |-> <<>>]

\* env_present
env_present(v) == v = "set"

\* should_use_tmux, without the look at $TMUX.
use_tmux_unless_disabled(no_tmux, TMUX) == ~no_tmux

\* should_use_tmux
should_use_tmux(no_tmux, TMUX) == ~no_tmux /\ env_present(TMUX)

\* The values of the state of the command line before anything has run.
NoFacts == [repo_git |-> "none", cwd_git |-> "none", cwd_codex |-> FALSE, sandbox |-> {}]
NoArgv == [sub |-> "", branch |-> NoStr, repo |-> "absent", codexdir |-> "absent",
           dry |-> "absent", no_tmux |-> "absent"]
NoPath == [has |-> FALSE, s |-> <<>>]
NoOpts == [ok |-> FALSE, branch |-> <<>>, repo |-> <<>>, codexdir |-> NoPath,
           dry_run |-> FALSE, no_tmux |-> FALSE]
Unread == [CODEX_REPO |-> "?", CODEX_CODEXDIR |-> "?", HOME |-> "?", TMUX |-> "?",
           repo_is_dir |-> "?", cwd_is_dir |-> "?", status |-> "?", facts |-> NoFacts]
NoCmd == [program |-> <<>>, args |-> <<>>]
NoError ==
    [kind |-> "none", label |-> "", var |-> "", path |-> <<>>, branch |-> <<>>, msg |-> <<>>]
Running == [code |-> "running", error |-> NoError]

CliIdle ==
    /\ argv = NoArgv
    /\ opts = NoOpts
    /\ cpc = "idle"
    /\ env = Unread
    /\ cmd = NoCmd
    /\ stdout = <<>>
    /\ spawned = <<>>
    /\ exit = Running

\* The trees behind a root that is a link: the directory it points to is
\* empty or holds one record file with a matching record.
LinkedTrees == {EmptyTree, [EmptyTree EXCEPT ![<<nR, nBjsonl>>] = FileNode("file", "match")]}

Init ==
    /\ \/ rootKind = "dir" /\ tree \in Trees
       \/ rootKind = "symDir" /\ tree \in LinkedTrees
       \/ rootKind \in RootKinds \ {"dir", "symDir"} /\ tree = EmptyTree
    /\ branch \in Targets
    /\ CliIdle
    /\ pc = "start"
    /\ heap = {}
    /\ cur = <<>>
    /\ yielded = <<>>
    /\ popped = {}
    /\ listed = {}
    /\ opened = <<>>
    /\ result = Pending
    /\ run = 1
    /\ prev = <<>>

\* The scan changes neither the tree nor the state of the command line.
fsUnchanged == UNCHANGED <<rootKind, tree, branch, cliVars>>

\* SortedWalk::new succeeds.
NewOk ==
    /\ pc = "start"
    /\ SortedWalk_new(Root).ok
    /\ heap' = SortedWalk_new(Root).heap
    /\ pc' = "walking"
    /\ fsUnchanged
    /\ UNCHANGED <<cur, yielded, popped, listed, opened, result, run, prev>>

\* SortedWalk::new fails and find_first_session returns its error.
NewErr ==
    /\ pc = "start"
    /\ ~SortedWalk_new(Root).ok
    /\ result' = Err(Root)
    /\ pc' = "done"
    /\ fsUnchanged
    /\ UNCHANGED <<heap, cur, yielded, popped, listed, opened, run, prev>>

\* A turn of the loop that skips the popped path.
Skip(step) ==
    /\ \E path \in HeapPop(heap) :
          LET it == next_iter(path, heap \ {path}) IN
          /\ it.step = step
          /\ heap' = it.heap
          /\ popped' = popped \cup {path}
    /\ fsUnchanged
    /\ UNCHANGED <<pc, cur, yielded, listed, opened, result, run, prev>>

\* symlink_metadata fails on the popped path.
NextNoMeta ==
    /\ pc = "walking"
    /\ Skip("nometa")

\* The popped path is a symbolic link.
NextSymlink ==
    /\ pc = "walking"
    /\ Skip("symlink")

\* The popped path is a directory that read_dir cannot list.
NextUnlistable ==
    /\ pc = "walking"
    /\ Skip("unlistable")

\* The popped path is no link, no directory and no regular file.
NextOther ==
    /\ pc = "walking"
    /\ Skip("other")

\* A turn of the loop that lists a directory and pushes its entries.
NextExpand ==
    /\ pc = "walking"
    /\ \E path \in HeapPop(heap) :
          LET it == next_iter(path, heap \ {path}) IN
          /\ it.step = "expand"
          /\ heap' = it.heap
          /\ listed' = listed \cup {path}
          /\ popped' = popped \cup {path}
    /\ fsUnchanged
    /\ UNCHANGED <<pc, cur, yielded, opened, result, run, prev>>

\* next() returns a file.
NextYield ==
    /\ pc = "walking"
    /\ \E path \in HeapPop(heap) :
          LET it == next_iter(path, heap \ {path}) IN
          /\ it.step = "yield"
          /\ heap' = it.heap
          /\ cur' = path
          /\ yielded' = Append(yielded, path)
          /\ popped' = popped \cup {path}
    /\ pc' = "candidate"
    /\ fsUnchanged
    /\ UNCHANGED <<listed, opened, result, run, prev>>

\* next() returns None: find_map ends without a session.
NextExhausted ==
    /\ pc = "walking"
    /\ heap = {}
    /\ result' = OkNone
    /\ pc' = "done"
    /\ fsUnchanged
    /\ UNCHANGED <<heap, cur, yielded, popped, listed, opened, run, prev>>

\* filter(is_jsonl) drops the file.
FilterDrop ==
    /\ pc = "candidate"
    /\ ~is_jsonl(cur)
    /\ pc' = "walking"
    /\ cur' = <<>>
    /\ fsUnchanged
    /\ UNCHANGED <<heap, yielded, popped, listed, opened, result, run, prev>>

\* find_map calls session_from_jsonl on the file.
Candidate ==
    /\ pc = "candidate"
    /\ is_jsonl(cur)
    /\ LET to == find_map_step(session_from_jsonl(cur, branch)) IN
          /\ pc' = to.pc
          /\ result' = to.result
    /\ opened' = Append(opened, cur)
    /\ cur' = <<>>
    /\ fsUnchanged
    /\ UNCHANGED <<heap, yielded, popped, listed, run, prev>>

\* The program is run again on the same tree: nothing of the walker is kept.
Again ==
    /\ pc = "done"
    /\ run < MaxRuns
    /\ prev' = Append(prev, result)
    /\ run' = run + 1
    /\ pc' = "start"
    /\ heap' = {}
    /\ cur' = <<>>
    /\ yielded' = <<>>
    /\ popped' = {}
    /\ listed' = {}
    /\ opened' = <<>>
    /\ result' = Pending
    /\ fsUnchanged

Next ==
    \/ NewOk
    \/ NewErr
    \/ NextNoMeta
    \/ NextSymlink
    \/ NextUnlistable
    \/ NextOther
    \/ NextExpand
    \/ NextYield
    \/ NextExhausted
    \/ FilterDrop
    \/ Candidate
    \/ Again

Spec == Init /\ [][Next]_vars

\* The trees whose files hold a matching record or no line at all.
FairInit ==
    /\ Init
    /\ \A p \in Slots : tree[p].content \in {"-", "match", "empty"}

\* The program runs on: a step that can be taken is taken in the end.
FairSpec == FairInit /\ [][Next]_vars /\ WF_vars(Next)

(***************************************************************************)
(* What the properties speak of.                                           *)
(***************************************************************************)
Range(f) == {f[i] : i \in DOMAIN f}

pA == <<nR, nA>>
pAX == <<nR, nA, nXjsonl>>
pAjsonl == <<nR, nAjsonl>>
pBjsonl == <<nR, nBjsonl>>
pBJSONL == <<nR, nBJSONL>>
pBjson == <<nR, nBjson>>

\* The root exists and can be listed.
RootListable == rootKind \in {"dir", "symDir"}

\* Every directory from the root down to the entry is a directory itself,
\* not a link, and can be listed.
ThroughDirs(p) ==
    /\ rootKind = "dir"
    /\ \A i \in 2..(Len(p) - 1) : tree[SubSeq(p, 1, i)].kind = "dir"

\* The regular files reachable from the root.
ReachableFiles == {p \in Slots : tree[p].kind = "file" /\ ThroughDirs(p)}

\* The record files among them.
Candidates == {p \in ReachableFiles : is_jsonl(p)}

\* The first line of the file decodes to a record of the target branch with
\* a cwd and an id that are not blank.
Qualifies(p) ==
    /\ tree[p].content \in DOMAIN Lines
    /\ structured_check(Lines[tree[p].content], branch).some

Qualifying == {p \in Candidates : Qualifies(p)}

Finished == <<result>> \o prev

\* C1: the paths next() returns are in strictly ascending order of the
\* whole path text.
C1_AscendingPathText ==
    \A i, j \in DOMAIN yielded : i < j => StrLess(yielded[i], yielded[j])

\* C2: when more than one record file qualifies, the session returned is
\* that of the qualifying file whose path text is first.
C2_FirstQualifyingWins ==
    pc = "done" /\ Cardinality(Qualifying) > 1 =>
        /\ result.kind = "some"
        /\ result.source_jsonl \in Qualifying
        /\ \A q \in Qualifying :
              q = result.source_jsonl \/ StrLess(result.source_jsonl, q)

\* C3: on a listable root the result is Some exactly when a reachable
\* record file qualifies, and then it carries that file's path, trimmed cwd
\* and trimmed id; otherwise it is None.
C3_SomeIffQualifying ==
    pc = "done" /\ RootListable =>
        /\ result.kind = "some" <=> Qualifying # {}
        /\ result.kind = "none" <=> Qualifying = {}
        /\ result.kind = "some" =>
              /\ result.source_jsonl \in Qualifying
              /\ LET s == structured_check(Lines[tree[result.source_jsonl].content], branch)
                 IN  result.cwd = s.cwd /\ result.id = s.id

\* C4: every session constructed has a cwd and an id that are not empty and
\* are the trimmed fields of the first line of its file, and the branch
\* decoded from that line is the target, character for character.
C4_SessionInvariant ==
    \A i \in DOMAIN Finished :
        LET r == Finished[i] IN
        r.kind = "some" =>
            LET fl == read_first_line(r.source_jsonl)
                ev == from_str(fl.line)
            IN  /\ fl.ok /\ fl.some /\ ev.ok
                /\ ev.branch.has /\ ev.branch.s = branch
                /\ ev.cwd.has /\ r.cwd = Trim(ev.cwd.s) /\ r.cwd # <<>>
                /\ ev.id.has /\ r.id = Trim(ev.id.s) /\ r.id # <<>>

\* A session was returned after a record whose branch differs from the
\* target only in case or in a leading blank was read.
C4_Witness ==
    /\ result.kind = "some"
    /\ \E i \in DOMAIN opened : tree[opened[i]].content \in {"upper", "spaced", "blankcwd"}

\* C5: every path yielded is a regular file reached through directories
\* that are no links, no link is ever listed, and no session comes from a
\* link.
C5_NoSymlinkNoDirectory ==
    /\ \A i \in DOMAIN yielded : tree[yielded[i]].kind = "file" /\ ThroughDirs(yielded[i])
    /\ \A d \in listed : NodeAt(d).kind = "dir"
    /\ \A i \in DOMAIN opened : tree[opened[i]].kind = "file"
    /\ result.kind = "some" => tree[result.source_jsonl].kind = "file"

\* The walk ended without a session over a tree with a link to a directory
\* that holds a matching record and a link to a matching record.
C5_Witness ==
    /\ pc = "done" /\ result.kind = "none" /\ rootKind = "dir" /\ branch = bFx
    /\ tree[pA].kind = "symDir"
    /\ tree[pAX] = FileNode("file", "match")
    /\ tree[pAjsonl] = FileNode("symFile", "match")

\* C6: with a root that is missing or cannot be listed the walker is never
\* made, and the call ends with the error that names the root.
C6_RootError ==
    ~RootListable =>
        /\ pc \in {"start", "done"}
        /\ pc = "done" => result = Err(Root)

C6_Witness == pc = "done" /\ rootKind \in {"missing", "dirNoList"} /\ result.kind = "err"

Unreadable == {"unopenable", "empty", "nonutf8", "garbage", "shape", "nogit"}

C8_SkipsOnlyTheUnreadable ==
    rootKind = "dir" =>
        /\ result.kind # "err"
        /\ \A i, j \in DOMAIN yielded : i < j => PathLess(yielded[i], yielded[j])
        /\ pc = "done" /\ result.kind = "none" => Range(yielded) = ReachableFiles
        /\ pc = "done" /\ result.kind = "some" =>
              Range(yielded) = {p \in ReachableFiles :
                                  p = result.source_jsonl \/ PathLess(p, result.source_jsonl)}

\* The walk passed a directory that cannot be listed and an entry without
\* metadata, and yielded the file after them.
C8_Witness ==
    /\ pc = "done"
    /\ tree[pA].kind = "dirNoList"
    /\ tree[pAjsonl].kind = "noMeta"
    /\ tree[pBjsonl].kind = "file"
    /\ yielded = <<pBjsonl>>

\* C9: for the first line of every candidate, parse_session_first_line
\* gives what the structured check alone gives.
C9_PrecheckNeverRejectsAMatch ==
    pc = "candidate" /\ is_jsonl(cur) =>
        LET fl == read_first_line(cur) IN
        fl.ok /\ fl.some =>
            parse_session_first_line(fl.line, branch) = structured_check(fl.line, branch)

C11_StopsAtFirstMatch ==
    [][result.kind = "some" =>
          /\ pc = "done"
          /\ run' = run => UNCHANGED <<heap, cur, yielded, listed, opened, result>>]_vars

\* A session was returned while paths were still pending in the heap.
C11_Witness ==
    /\ pc = "done" /\ result.kind = "some"
    /\ heap # {}
    /\ \E p \in heap : is_jsonl(p) /\ tree[p].kind = "file"

\* The last component ends in ".jsonl" and has a character before it.
NamedJsonl(p) ==
    LET name == p[Len(p)] IN
    /\ Len(name) > 6
    /\ SubSeq(name, Len(name) - 5, Len(name)) = <<".", "j", "s", "o", "n", "l">>

\* C12: every path opened, and the source of every session, is a regular
\* file whose name ends in ".jsonl" in lower case; a file with the extension
\* JSONL or json or with no extension, and a directory whose name ends in
\* ".jsonl", is never opened.
C12_OnlyJsonlOpened ==
    /\ \A i \in DOMAIN opened :
          /\ NamedJsonl(opened[i])
          /\ tree[opened[i]].kind = "file"
          /\ opened[i] \notin {pA, pBJSONL, pBjson}
    /\ \A i \in DOMAIN Finished :
          Finished[i].kind = "some" =>
              /\ NamedJsonl(Finished[i].source_jsonl)
              /\ tree[Finished[i].source_jsonl].kind = "file"

\* The walk listed a directory named a.jsonl, yielded b.JSONL and b.json,
\* both holding a matching record, and ended without opening a file.
C12_Witness ==
    /\ pc = "done" /\ result.kind = "none" /\ branch = bFx
    /\ tree[pAjsonl].kind = "dir" /\ pAjsonl \in listed
    /\ yielded = <<pBJSONL, pBjson>>
    /\ tree[pBJSONL].content = "match" /\ tree[pBjson].content = "match"
    /\ opened = <<>>

\* What the first lines alone decide: the session of the least candidate
\* whose first line gives one, None when there is no such candidate.
FirstLineMatches ==
    {p \in Candidates :
        /\ tree[p].content \in DOMAIN Lines
        /\ ParsedLines[Lines[tree[p].content]][branch].some}

ByFirstLines ==
    IF FirstLineMatches = {} THEN OkNone
    ELSE LET p == CHOOSE q \in FirstLineMatches :
                     \A o \in FirstLineMatches : o = q \/ PathLess(q, o)
             s == ParsedLines[Lines[tree[p].content]][branch]
         IN  OkSome([cwd |-> s.cwd, id |-> s.id, source_jsonl |-> p])

\* C13: the result is a function of the first lines of the candidate files:
\* trees that differ in later lines only give the same result, and a file
\* whose matching record stands on its second line is no match.
C13_FirstLineOnly ==
    pc = "done" /\ rootKind = "dir" =>
        /\ result = ByFirstLines
        /\ result.kind = "some" => tree[result.source_jsonl].content # "late"

\* A file with the matching record on line 2 was opened and passed over,
\* and the session came from a later file that has lines after its first.
C13_Witness ==
    /\ pc = "done" /\ rootKind = "dir" /\ branch = bFx
    /\ tree[pAjsonl].content = "late" /\ tree[pBjsonl].content = "more"
    /\ opened = <<pAjsonl, pBjsonl>>
    /\ result.kind = "some" /\ result.source_jsonl = pBjsonl

\* C14: on the unmodified tree every invocation returns; when it returns
\* None the heap is empty, and it stays empty until a new invocation.
C14_WalkIsFinite ==
    /\ (pc = "start") ~> (pc = "done")
    /\ [](pc = "done" /\ result.kind = "none" => heap = {})

\* The walk listed the root and a directory below it, yielded the files of
\* both and ended with None on an empty heap.
C14_Witness ==
    /\ pc = "done" /\ result.kind = "none" /\ heap = {}
    /\ listed = {Root, pA}
    /\ Len(yielded) = 2 /\ pAX \in Range(yielded)

(***************************************************************************)
(* The command line (args.rs): what #[derive(Parser)] declares.            *)
(***************************************************************************)
\* The subcommand of the variant ResumeBranch: its name is the name of the
\* variant in kebab case, and it has two visible aliases.
ResumeBranch == [name |-> "resume-branch", visible_aliases |-> <<"rb", "resume">>]

\* The options of ResumeBranch: the long name is that of the field, there
\* is a short name only where one is given.
arg_repo == [long |-> "--repo", short |-> "", env |-> "CODEX_REPO"]
arg_codexdir == [long |-> "--codexdir", short |-> "", env |-> "CODEX_CODEXDIR"]
arg_dry_run == [long |-> "--dry-run", short |-> "-n", env |-> ""]
arg_no_tmux == [long |-> "--no-tmux", short |-> "", env |-> ""]

\* The spellings that select a subcommand or an option.
subcommand_names(c) == {c.name} \cup {c.visible_aliases[i] : i \in DOMAIN c.visible_aliases}
option_names(a) == {a.long} \cup (IF a.short = "" THEN {} ELSE {a.short})

\* The values given for the paths: on the command line and in the
\* environment.  The path given by --codexdir is the root of the tree.
repoFlagPath == <<"/", "g">>
repoEnvPath == <<"/", "e">>
codexdirFlagPath == PathStr(Root)
codexdirEnvPath == <<"/", "c">>

\* The command lines tried: the word of the subcommand, the positional
\* argument if there is one, and for every option the spelling used.
Argvs ==
    [sub : {"resume-branch", "rb", "resume", "branch"},
     branch : {NoStr} \cup {Str(b) : b \in Targets},
     repo : {"--repo", "-r", "absent"},
     codexdir : {"--codexdir", "absent"},
     dry : {"--dry-run", "-n", "absent"},
     no_tmux : {"--no-tmux", "absent"}]

\* A word of the command line is the option, or the option is not given.
Given(word, a) == word \in option_names(a)
Known(word, a) == word = "absent" \/ Given(word, a)

\* A parser that knows the subcommand by its name alone.
parse_without_aliases(a, e) ==
    IF /\ a.sub = ResumeBranch.name
       /\ a.branch.has
       /\ Known(a.repo, arg_repo) /\ Known(a.codexdir, arg_codexdir)
       /\ Known(a.dry, arg_dry_run) /\ Known(a.no_tmux, arg_no_tmux)
       /\ Given(a.repo, arg_repo) \/ e.CODEX_REPO = "set"
    THEN [ok |-> TRUE,
          branch |-> a.branch.s,
          repo |-> IF Given(a.repo, arg_repo) THEN repoFlagPath ELSE repoEnvPath,
          codexdir |-> IF Given(a.codexdir, arg_codexdir) THEN Str(codexdirFlagPath)
                       ELSE IF e.CODEX_CODEXDIR = "set" THEN Str(codexdirEnvPath)
                       ELSE NoPath,
          dry_run |-> Given(a.dry, arg_dry_run),
          no_tmux |-> Given(a.no_tmux, arg_no_tmux)]
    ELSE NoOpts

\* Args::parse: the subcommand by its name or an alias, the positional
\* argument as it stands, an option from the command line or else from its
\* environment variable; an error for an unknown word and for a required
\* argument that is missing.
parse_args(a, e) ==
    IF /\ a.sub \in subcommand_names(ResumeBranch)
       /\ a.branch.has
       /\ Known(a.repo, arg_repo) /\ Known(a.codexdir, arg_codexdir)
       /\ Known(a.dry, arg_dry_run) /\ Known(a.no_tmux, arg_no_tmux)
       /\ Given(a.repo, arg_repo) \/ e.CODEX_REPO = "set"
    THEN [ok |-> TRUE,
          branch |-> a.branch.s,
          repo |-> IF Given(a.repo, arg_repo) THEN repoFlagPath ELSE repoEnvPath,
          codexdir |-> IF Given(a.codexdir, arg_codexdir) THEN Str(codexdirFlagPath)
                       ELSE IF e.CODEX_CODEXDIR = "set" THEN Str(codexdirEnvPath)
                       ELSE NoPath,
          dry_run |-> Given(a.dry, arg_dry_run),
          no_tmux |-> Given(a.no_tmux, arg_no_tmux)]
    ELSE NoOpts

(***************************************************************************)
(* run_resume_branch (mod.rs), one step at a time.                         *)
(***************************************************************************)
\* An is_dir that holds of every path.
is_dir_always(path) == TRUE

\* Path::is_dir of a path of the command line: of the paths but the repo
\* only the root of the tree can be a directory.
is_dir(path) == path = PathStr(Root) /\ rootKind \in DirKinds

\* A require_dir that accepts every path.
require_dir_unchecked(isdir, path, label, var) == [ok |-> TRUE, error |-> NoError]

\* A require_dir whose message names the variable even when there is none.
require_dir_always_from(isdir, path, label, var) ==
    IF isdir THEN [ok |-> TRUE, error |-> NoError]
    ELSE [ok |-> FALSE,
          error |-> [kind |-> "is not a directory", label |-> label, var |-> var,
                     path |-> path, branch |-> <<>>,
                     msg |-> <<label, " (from ", var, ")", " is not a directory: ">> \o path]]

\* require_dir: the two format! strings, var = "" standing for None
require_dir(isdir, path, label, var) ==
    IF isdir THEN [ok |-> TRUE, error |-> NoError]
    ELSE [ok |-> FALSE,
          error |-> [kind |-> "is not a directory", label |-> label, var |-> var,
                     path |-> path, branch |-> <<>>,
                     msg |-> IF var # ""
                             THEN <<label, " (from ", var, ")", " is not a directory: ">> \o path
                             ELSE <<label, " is not a directory: ">> \o path]]

\* An entry that logs the error and exits with success.
error_ignored(error) == [code |-> "success", error |-> error]

\* entry: an error of run becomes ExitCode::FAILURE.
Failure(error) == [code |-> "failure", error |-> error]
Success == [code |-> "success", error |-> NoError]

Tree4(a, aj, bj, bJ) ==
    [p \in Slots |->
        CASE p = pA -> a
          [] p = pAjsonl -> aj
          [] p = pBjsonl -> bj
          [] p = pBJSONL -> bJ
          [] OTHER -> Absent]

\* The trees the command line is run on.
CliTrees ==
    {Tree4(Absent, Absent, Absent, Absent),
     Tree4(Absent, Absent, FileNode("file", "match"), Absent),
     Tree4(Absent, FileNode("file", "padded"), FileNode("file", "match"), Absent),
     Tree4(Absent, FileNode("file", "match"), FileNode("file", "padded"), Absent),
     Tree4(Node("dirNoList"), Node("noMeta"), FileNode("file", "match"), Absent),
     Tree4(Node("other"), FileNode("symFile", "match"), Absent, FileNode("file", "match")),
     Tree4(Node("dir"), FileNode("file", "garbage"), Absent, Absent)}

\* The optional directories that exist.
FactSets ==
    {NoFacts,
     [repo_git |-> "dir", cwd_git |-> "gitfile", cwd_codex |-> TRUE,
      sandbox |-> {join(homePath, W(".cargo")), W("/tmp")}],
     [repo_git |-> "dangling", cwd_git |-> "link", cwd_codex |-> FALSE,
      sandbox |-> {join(homePath, W(".npm")), W("/var/folders")}]}

CliInit ==
    /\ \/ rootKind = "dir" /\ tree \in CliTrees
       \/ rootKind = "symDir" /\ tree \in LinkedTrees
       \/ rootKind \in RootKinds \ {"dir", "symDir"} /\ tree = EmptyTree
    /\ branch = <<>>
    /\ pc = "idle"
    /\ heap = {}
    /\ cur = <<>>
    /\ yielded = <<>>
    /\ popped = {}
    /\ listed = {}
    /\ opened = <<>>
    /\ result = Pending
    /\ run = 1
    /\ prev = <<>>
    /\ argv = NoArgv
    /\ opts = NoOpts
    /\ cpc = "parse"
    /\ env = Unread
    /\ cmd = NoCmd
    /\ stdout = <<>>
    /\ spawned = <<>>
    /\ exit = Running

scanUnchanged ==
    UNCHANGED <<rootKind, tree, pc, heap, cur, yielded, popped, listed, opened, result, run, prev>>

\* run_resume_branch returns the error and entry turns it into FAILURE.
Fail(error) ==
    /\ exit' = Failure(error)
    /\ cpc' = "exit"

\* What is read of an environment variable that clap consults only when
\* the option is not on the command line.
EnvIfAbsent(word) == IF word = "absent" THEN {"unset", "set"} ELSE {"?"}

\* Args::parse accepts the command line and run dispatches on the command.
ParseOk ==
    /\ cpc = "parse"
    /\ \E a \in Argvs : \E r \in EnvIfAbsent(a.repo), c \in EnvIfAbsent(a.codexdir) :
          LET e == [env EXCEPT !.CODEX_REPO = r, !.CODEX_CODEXDIR = c]
              o == parse_args(a, e)
          IN  /\ o.ok
              /\ argv' = a
              /\ env' = e
              /\ opts' = o
              /\ branch' = o.branch
    /\ cpc' = "resolve"
    /\ scanUnchanged
    /\ UNCHANGED <<cmd, stdout, spawned, exit>>

\* Args::parse rejects the command line: clap reports the error and exits.
ParseErr ==
    /\ cpc = "parse"
    /\ \E a \in Argvs : \E r \in EnvIfAbsent(a.repo), c \in EnvIfAbsent(a.codexdir) :
          LET e == [env EXCEPT !.CODEX_REPO = r, !.CODEX_CODEXDIR = c]
              o == parse_args(a, e)
          IN  /\ ~o.ok
              /\ argv' = a
              /\ env' = e
              /\ opts' = o
    /\ exit' = [code |-> "usage", error |-> [NoError EXCEPT !.kind = "clap"]]
    /\ cpc' = "exit"
    /\ scanUnchanged
    /\ UNCHANGED <<branch, cmd, stdout, spawned>>

\* let codexdir = codexdir.map(Ok)...: the option was given.
ResolveCodexdir ==
    /\ cpc = "resolve"
    /\ opts.codexdir.has
    /\ cpc' = "repo"
    /\ scanUnchanged
    /\ UNCHANGED <<branch, argv, opts, env, cmd, stdout, spawned, exit>>

\* ...unwrap_or_else(default_codexdir): $HOME/.codex.
DefaultCodexdir ==
    /\ cpc = "resolve"
    /\ ~opts.codexdir.has
    /\ \E h \in EnvStates :
          /\ default_codexdir(h).ok
          /\ env' = [env EXCEPT !.HOME = h]
          /\ opts' = [opts EXCEPT !.codexdir = Str(default_codexdir(h).path)]
    /\ cpc' = "repo"
    /\ scanUnchanged
    /\ UNCHANGED <<branch, argv, cmd, stdout, spawned, exit>>

\* default_codexdir fails: $HOME is unset or empty.
DefaultCodexdirErr ==
    /\ cpc = "resolve"
    /\ ~opts.codexdir.has
    /\ \E h \in EnvStates :
          /\ ~default_codexdir(h).ok
          /\ env' = [env EXCEPT !.HOME = h]
    /\ Fail([NoError EXCEPT !.kind = "$HOME is empty", !.var = "CODEX_CODEXDIR"])
    /\ scanUnchanged
    /\ UNCHANGED <<branch, argv, opts, cmd, stdout, spawned>>

\* require_dir(&repo, "repo", Some("CODEX_REPO")) on a repo that is a
\* directory or is none.
RequireRepo ==
    /\ cpc = "repo"
    /\ \E d \in {"yes", "no"} :
          LET r == require_dir(d = "yes", opts.repo, "repo", "CODEX_REPO") IN
          /\ env' = [env EXCEPT !.repo_is_dir = d]
          /\ IF r.ok THEN cpc' = "codexdir" /\ exit' = exit ELSE Fail(r.error)
    /\ scanUnchanged
    /\ UNCHANGED <<branch, argv, opts, cmd, stdout, spawned>>

\* require_dir(&codexdir, ..) succeeds and find_first_session is called.
RequireCodexdir ==
    /\ cpc = "codexdir"
    /\ require_dir(is_dir(opts.codexdir.s), opts.codexdir.s, "codexdir", "CODEX_CODEXDIR").ok
    /\ cpc' = "find"
    /\ pc' = "start"
    /\ UNCHANGED <<rootKind, tree, heap, cur, yielded, popped, listed, opened, result, run, prev>>
    /\ UNCHANGED <<branch, argv, opts, env, cmd, stdout, spawned, exit>>

\* require_dir(&codexdir, ..) fails.
RequireCodexdirErr ==
    /\ cpc = "codexdir"
    /\ LET r == require_dir(is_dir(opts.codexdir.s), opts.codexdir.s,
                            "codexdir", "CODEX_CODEXDIR")
       IN  ~r.ok /\ Fail(r.error)
    /\ scanUnchanged
    /\ UNCHANGED <<branch, argv, opts, env, cmd, stdout, spawned>>

\* find_first_session(..)? : the root could not be listed.
FindErr ==
    /\ cpc = "find" /\ pc = "done"
    /\ result.kind = "err"
    /\ Fail([NoError EXCEPT !.kind = "failed to read_dir", !.path = PathStr(result.dir)])
    /\ scanUnchanged
    /\ UNCHANGED <<branch, argv, opts, env, cmd, stdout, spawned>>

\* .with_context(..)? : Ok(None) becomes the error that no session matches.
FindNone ==
    /\ cpc = "find" /\ pc = "done"
    /\ result.kind = "none"
    /\ Fail([NoError EXCEPT !.kind = "No matching session found",
                            !.branch = branch, !.path = opts.codexdir.s])
    /\ scanUnchanged
    /\ UNCHANGED <<branch, argv, opts, env, cmd, stdout, spawned>>

\* require_dir(&session.cwd, "session cwd", None) on the session found.
RequireCwd ==
    /\ cpc = "find" /\ pc = "done"
    /\ result.kind = "some"
    /\ \E d \in {"yes", "no"} :
          LET r == require_dir(d = "yes", result.cwd, "session cwd", "") IN
          /\ env' = [env EXCEPT !.cwd_is_dir = d]
          /\ IF r.ok THEN cpc' = "build" /\ exit' = exit ELSE Fail(r.error)
    /\ scanUnchanged
    /\ UNCHANGED <<branch, argv, opts, cmd, stdout, spawned>>

\* build_codex_cmd(&repo, &codexdir, &session, home_dir())
Build ==
    /\ cpc = "build"
    /\ \E h \in (IF env.HOME = "?" THEN EnvStates ELSE {env.HOME}), f \in FactSets :
          /\ env' = [env EXCEPT !.HOME = h, !.facts = f]
          /\ cmd' = build_codex_cmd(opts.repo, opts.codexdir.s,
                                    [cwd |-> result.cwd, id |-> result.id],
                                    home_dir(h), f)
    /\ cpc' = "act"
    /\ scanUnchanged
    /\ UNCHANGED <<branch, argv, opts, stdout, spawned, exit>>

\* What should_use_tmux reads of $TMUX: nothing when --no-tmux is given.
TmuxRead == IF opts.no_tmux THEN {"?"} ELSE EnvStates

\* (true, true): the tmux command is printed.
PrintTmux ==
    /\ cpc = "act"
    /\ \E t \in TmuxRead :
          /\ opts.dry_run /\ should_use_tmux(opts.no_tmux, t)
          /\ env' = [env EXCEPT !.TMUX = t]
    /\ stdout' = Append(stdout, as_shell_string(tmux_new_window_cmd(result.cwd, cmd)))
    /\ exit' = Success
    /\ cpc' = "exit"
    /\ scanUnchanged
    /\ UNCHANGED <<branch, argv, opts, cmd, spawned>>

\* (true, false): the codex command is printed.
PrintCodex ==
    /\ cpc = "act"
    /\ \E t \in TmuxRead :
          /\ opts.dry_run /\ ~should_use_tmux(opts.no_tmux, t)
          /\ env' = [env EXCEPT !.TMUX = t]
    /\ stdout' = Append(stdout, as_shell_string(cmd))
    /\ exit' = Success
    /\ cpc' = "exit"
    /\ scanUnchanged
    /\ UNCHANGED <<branch, argv, opts, cmd, spawned>>

\* (false, true): run_tmux_new_window; a tmux that cannot be launched or
\* does not end with success is an error.
RunTmux ==
    /\ cpc = "act"
    /\ \E t \in TmuxRead, st \in Statuses :
          /\ ~opts.dry_run /\ should_use_tmux(opts.no_tmux, t)
          /\ env' = [env EXCEPT !.TMUX = t, !.status = st]
          /\ spawned' = Append(spawned, run_tmux_new_window(result.cwd, cmd))
          /\ exit' = CASE st = "zero" -> Success
                       [] st = "nospawn" ->
                            Failure([NoError EXCEPT !.kind = "failed to launch tmux new-window"])
                       [] OTHER -> Failure([NoError EXCEPT !.kind = "tmux exited with status"])
    /\ cpc' = "exit"
    /\ scanUnchanged
    /\ UNCHANGED <<branch, argv, opts, cmd, stdout>>

\* (false, false): run_in_dir; the exit code is that of codex.
RunInline ==
    /\ cpc = "act"
    /\ \E t \in TmuxRead, st \in Statuses :
          /\ ~opts.dry_run /\ ~should_use_tmux(opts.no_tmux, t)
          /\ env' = [env EXCEPT !.TMUX = t, !.status = st]
          /\ spawned' = Append(spawned, run_in_dir(result.cwd, cmd))
          /\ exit' = IF st = "nospawn"
                     THEN Failure([NoError EXCEPT !.kind = "failed to run codex"])
                     ELSE [code |-> exit_code(st), error |-> NoError]
    /\ cpc' = "exit"
    /\ scanUnchanged
    /\ UNCHANGED <<branch, argv, opts, cmd, stdout>>

CliNext ==
    \/ ParseOk
    \/ ParseErr
    \/ ResolveCodexdir
    \/ DefaultCodexdir
    \/ DefaultCodexdirErr
    \/ RequireRepo
    \/ RequireCodexdir
    \/ RequireCodexdirErr
    \/ NewOk
    \/ NewErr
    \/ NextNoMeta
    \/ NextSymlink
    \/ NextUnlistable
    \/ NextOther
    \/ NextExpand
    \/ NextYield
    \/ NextExhausted
    \/ FilterDrop
    \/ Candidate
    \/ FindErr
    \/ FindNone
    \/ RequireCwd
    \/ Build
    \/ PrintTmux
    \/ PrintCodex
    \/ RunTmux
    \/ RunInline

\* One invocation of amg, from the command line to the exit code.
CliSpec == CliInit /\ [][CliNext]_vars

(***************************************************************************)
(* Properties of the command line.                                         *)
(***************************************************************************)
\* --no-tmux is not given and $TMUX is set to a value that is not empty.
TmuxWanted == ~opts.no_tmux /\ env.TMUX = "set"

\* run_resume_branch has come to its last step and taken it.
Acted == cpc = "exit" /\ cmd # NoCmd

\* The program and the arguments of a process.
ArgvOf(p) == [program |-> p.program, args |-> p.args]

\* C15: with --dry-run no process is ever spawned; a run that gets to its
\* last step prints one line and exits with success, and the line is the
\* quoted program and arguments of the process the run without --dry-run
\* spawns: those run_tmux_new_window hands to tmux (tmux new-window -c
\* <session cwd> codex ...) when tmux is wanted, else those of codex.
C15_DryRunPrintsTheCommand ==
    opts.dry_run =>
        /\ spawned = <<>>
        /\ stdout # <<>> => Acted
        /\ Acted =>
              /\ exit = Success
              /\ IF TmuxWanted
                 THEN LET p == ArgvOf(run_tmux_new_window(result.cwd, cmd)) IN
                      /\ stdout = <<as_shell_string(p)>>
                      /\ p.program = W("tmux")
                      /\ SubSeq(p.args, 1, 4) =
                            <<W("new-window"), W("-c"), result.cwd, W("codex")>>
                 ELSE LET p == ArgvOf(run_in_dir(result.cwd, cmd)) IN
                      /\ stdout = <<as_shell_string(p)>>
                      /\ p.program = W("codex")

\* A dry run inside tmux printed its line.
C15_Witness ==
    /\ Acted /\ opts.dry_run /\ TmuxWanted
    /\ Len(stdout) = 1 /\ exit = Success

\* C16: a run that gets to its last step takes exactly one of the four
\* actions: it prints the tmux command or the codex command, or it spawns
\* tmux new-window or codex in the session cwd; tmux is used exactly when
\* --no-tmux is not given and $TMUX is set and not empty.
C16_OneActionByDryRunAndTmux ==
    /\ Len(stdout) + Len(spawned) <= 1
    /\ Acted =>
          /\ Len(stdout) + Len(spawned) = 1
          /\ opts.dry_run <=> stdout # <<>>
          /\ ~opts.dry_run /\ TmuxWanted =>
                spawned = <<run_tmux_new_window(result.cwd, cmd)>>
          /\ ~opts.dry_run /\ ~TmuxWanted =>
                /\ spawned = <<[program |-> cmd.program, args |-> cmd.args,
                                current_dir |-> result.cwd]>>
                /\ cmd.program = W("codex")
          /\ opts.dry_run /\ TmuxWanted =>
                stdout = <<as_shell_string(tmux_new_window_cmd(result.cwd, cmd))>>
          /\ opts.dry_run /\ ~TmuxWanted => stdout = <<as_shell_string(cmd)>>

\* codex was run inline although --no-tmux was not given: $TMUX is empty.
C16_Witness ==
    /\ Acted /\ ~opts.dry_run /\ ~opts.no_tmux /\ env.TMUX = "empty"
    /\ Len(spawned) = 1 /\ spawned[1].program = W("codex")

\* C17: the scan ends with None only on a root that can be listed, and not
\* with the error of the root; the run then ends with the error that names
\* the branch and the codexdir, the exit code is FAILURE, and nothing is
\* printed or spawned.
C17_NoSessionIsFailure ==
    /\ result.kind = "none" => read_dir(Root).ok /\ result # Err(Root)
    /\ cpc = "exit" /\ result.kind = "none" =>
          /\ exit.code = "failure"
          /\ exit.error.kind = "No matching session found"
          /\ exit.error.branch = argv.branch.s
          /\ exit.error.path = opts.codexdir.s
          /\ stdout = <<>>
          /\ spawned = <<>>
    /\ cpc = "exit" /\ result.kind = "err" =>
          exit.code = "failure" /\ exit.error.kind = "failed to read_dir"

\* A run whose scan opened a record file and found no session has ended.
C17_Witness ==
    /\ cpc = "exit" /\ result.kind = "none" /\ opened # <<>>
    /\ exit.code = "failure"

\* The command line names the subcommand in one of its three spellings and
\* gives the branch and the repo.
WellFormed ==
    /\ argv.sub \in {"resume-branch", "rb", "resume"}
    /\ argv.branch.has
    /\ argv.repo = "--repo" \/ (argv.repo = "absent" /\ env.CODEX_REPO = "set")

\* C18: each of resume-branch, rb and resume selects ResumeBranch; the
\* branch is the positional argument as it stands, dry_run and no_tmux are
\* false unless their option is given, and codexdir is None unless it is
\* given (on the command line or in CODEX_CODEXDIR).
C18_ThreeNamesOneCommand ==
    cpc # "parse" /\ WellFormed =>
        /\ opts.ok
        /\ opts.branch = argv.branch.s
        /\ branch = argv.branch.s
        /\ opts.dry_run <=> argv.dry \in {"--dry-run", "-n"}
        /\ opts.no_tmux <=> argv.no_tmux = "--no-tmux"
        /\ cpc = "resolve" =>
              (opts.codexdir.has <=>
                  argv.codexdir = "--codexdir" \/ env.CODEX_CODEXDIR = "set")

\* `rb f/x --repo /g` was parsed: the branch is f/x, nothing else is set.
C18_Witness ==
    /\ cpc = "resolve" /\ argv.sub = "rb" /\ argv.repo = "--repo"
    /\ opts.ok /\ opts.branch = bFx
    /\ ~opts.dry_run /\ ~opts.no_tmux /\ ~opts.codexdir.has

\* C19: the subcommand a command line selects is declared with the name
\* resume and with rb as its only visible alias.
C19_ResumeWithOneAlias ==
    opts.ok =>
        /\ ResumeBranch.name = "resume"
        /\ ResumeBranch.visible_aliases = <<"rb">>

\* C20: --repo has the short form -r: a command line that gives the repo
\* with -r is accepted like one that gives it with --repo.
C20_RepoHasShortR ==
    /\ cpc # "parse"
    /\ argv.sub \in subcommand_names(ResumeBranch)
    /\ argv.branch.has
    /\ argv.repo \in {"--repo", "-r"}
    => /\ option_names(arg_repo) = {"--repo", "-r"}
       /\ opts.ok
       /\ opts.repo = repoFlagPath

\* The path of the codexdir option exists and is a directory: it names the
\* root, and the root is a directory or a link to one.
CodexdirIsDirectory ==
    opts.codexdir.s = PathStr(Root) /\ rootKind \in {"dir", "dirNoList", "symDir"}

\* The message holds the label, the words `is not a directory`, the path,
\* and `(from VAR)` when and only when a variable is named.
Says(msg, label, var, path) ==
    /\ Contains(msg, <<label>>)
    /\ \E i \in DOMAIN msg : msg[i] = " is not a directory: "
    /\ Contains(msg, path)
    /\ var # "" => Contains(msg, <<" (from ", var, ")">>)
    /\ var = "" => \A i \in DOMAIN msg : msg[i] # " (from "

\* C21: require_dir returns Ok exactly when the path is an existing
\* directory; otherwise its error message holds the label, the words
\* `is not a directory` and the path, and holds `(from VAR)` exactly when
\* a variable name was supplied (repo and codexdir, not the session cwd).
C21_RequireDirOkIffDirectory ==
    /\ env.repo_is_dir = "no" =>
          /\ cpc = "exit" /\ exit.code = "failure"
          /\ Says(exit.error.msg, "repo", "CODEX_REPO", opts.repo)
    /\ env.repo_is_dir = "yes" => cpc # "repo" /\ exit.error.label # "repo"
    /\ env.repo_is_dir = "yes" /\ cpc = "exit" /\ ~CodexdirIsDirectory =>
          /\ exit.code = "failure"
          /\ Says(exit.error.msg, "codexdir", "CODEX_CODEXDIR", opts.codexdir.s)
    /\ cpc \in {"find", "build", "act"} => CodexdirIsDirectory
    /\ CodexdirIsDirectory => exit.error.label # "codexdir"
    /\ env.cwd_is_dir = "no" =>
          /\ cpc = "exit" /\ exit.code = "failure"
          /\ Says(exit.error.msg, "session cwd", "", result.cwd)
    /\ env.cwd_is_dir = "yes" => exit.error.kind # "is not a directory"

\* The cwd of the session found is no directory: the run ended with the
\* message that names no variable.
C21_Witness ==
    /\ cpc = "exit" /\ env.cwd_is_dir = "no"
    /\ exit.error.msg = <<"session cwd", " is not a directory: ">> \o result.cwd

(***************************************************************************)
(* Quoting for the shell: commands whose words are drawn over single       *)
(* quotes, spaces, backslashes and a letter are printed, and the printed   *)
(* line is split the way sh splits it.                                     *)
(***************************************************************************)
MaxChars == 3
MaxArgs == 1

Alphabet == {"'", " ", "\\", "a"}
ShellWordsOfLen(n) == [1..n -> Alphabet]

\* The lists of at most n words that hold at most k characters in all.
RECURSIVE WordLists(_, _)
WordLists(n, k) ==
    IF n = 0 THEN {<<>>}
    ELSE {<<>>} \cup
         UNION {{<<w>> \o rest : w \in ShellWordsOfLen(j), rest \in WordLists(n - 1, k - j)}
                : j \in 0..k}

ShellCmds ==
    {[program |-> Head(l), args |-> Tail(l)] : l \in WordLists(MaxArgs + 1, MaxChars) \ {<<>>}}

\* Token recognition of sh on a line of quotes, backslashes, blanks and
\* letters: a blank outside quotes ends a word, '...' is taken as it
\* stands, a backslash outside quotes takes the next character as it
\* stands.  A line that ends inside quotes has no words.
RECURSIVE sh_scan(_, _, _, _, _)
sh_scan(t, quoted, word, started, words) ==
    IF t = <<>>
    THEN IF quoted THEN [ok |-> FALSE, words |-> <<>>]
         ELSE [ok |-> TRUE, words |-> IF started THEN Append(words, word) ELSE words]
    ELSE IF quoted
    THEN IF Head(t) = "'" THEN sh_scan(Tail(t), FALSE, word, TRUE, words)
         ELSE sh_scan(Tail(t), TRUE, Append(word, Head(t)), TRUE, words)
    ELSE IF Head(t) = " "
    THEN IF started THEN sh_scan(Tail(t), FALSE, <<>>, FALSE, Append(words, word))
         ELSE sh_scan(Tail(t), FALSE, word, FALSE, words)
    ELSE IF Head(t) = "'" THEN sh_scan(Tail(t), TRUE, word, TRUE, words)
    ELSE IF Head(t) = "\\"
    THEN IF Len(t) >= 2
         THEN sh_scan(Tail(Tail(t)), FALSE, Append(word, t[2]), TRUE, words)
         ELSE [ok |-> FALSE, words |-> <<>>]
    ELSE sh_scan(Tail(t), FALSE, Append(word, Head(t)), TRUE, words)

sh_split(line) == sh_scan(line, FALSE, <<>>, FALSE, <<>>)

ShellInit ==
    /\ rootKind = "missing" /\ tree = EmptyTree
    /\ branch = <<>>
    /\ pc = "idle"
    /\ heap = {}
    /\ cur = <<>>
    /\ yielded = <<>>
    /\ popped = {}
    /\ listed = {}
    /\ opened = <<>>
    /\ result = Pending
    /\ run = 1
    /\ prev = <<>>
    /\ argv = NoArgv
    /\ opts = NoOpts
    /\ cpc = "act"
    /\ env = Unread
    /\ cmd \in ShellCmds
    /\ stdout = <<>>
    /\ spawned = <<>>
    /\ exit = Running

\* println!("{}", cmd.as_shell_string())
PrintLine ==
    /\ cpc = "act"
    /\ stdout' = Append(stdout, as_shell_string(cmd))
    /\ exit' = Success
    /\ cpc' = "exit"
    /\ scanUnchanged
    /\ UNCHANGED <<branch, argv, opts, env, cmd, spawned>>

ShellNext == PrintLine

\* A command is printed as a line for the shell.
ShellSpec == ShellInit /\ [][ShellNext]_vars

CountQuotes(w) == Cardinality({i \in DOMAIN w : w[i] = "'"})

\* C22: sh splits the printed line into exactly the program and the
\* arguments; every word is printed between single quotes, the empty word
\* as '', and every single quote of a word as the four characters '\''.
C22_QuotingRoundTrips ==
    cpc = "exit" =>
        LET words == <<cmd.program>> \o cmd.args
            line == stdout[1]
        IN  /\ sh_split(line).ok
            /\ sh_split(line).words = words
            /\ line = JoinSpace([i \in DOMAIN words |-> sh_quote_lossy(words[i])])
            /\ \A i \in DOMAIN words :
                  LET q == sh_quote_lossy(words[i]) IN
                  /\ Head(q) = "'" /\ q[Len(q)] = "'"
                  /\ words[i] = <<>> => q = <<"'", "'">>
                  /\ Len(q) = Len(words[i]) + 2 + 3 * CountQuotes(words[i])
                  /\ \A k \in DOMAIN words[i] :
                        words[i][k] = "'" =>
                            \E j \in 1..(Len(q) - 3) :
                                SubSeq(q, j, j + 3) = <<"'", "\\", "'", "'">>

\* The command with the program `'` and the argument ` '` was printed.
C22_Witness ==
    /\ cpc = "exit"
    /\ cmd = [program |-> <<"'">>, args |-> <<(<<" ", "'">>)>>]
    /\ sh_split(stdout[1]).words = <<(<<"'">>), (<<" ", "'">>)>>

\* C23: the files are yielded in strictly ascending order of their paths
\* compared component by component; every path still in the heap is
\* greater than every file yielded so far; so a file below the directory
\* a is yielded before the sibling a.jsonl, whose name goes on where the
\* name of the directory ends.
C23_AscendingByComponents ==
    /\ \A i, j \in DOMAIN yielded : i < j => PathLess(yielded[i], yielded[j])
    /\ \A p \in heap : \A i \in DOMAIN yielded : PathLess(yielded[i], p)
    /\ \A i, j \in DOMAIN yielded :
          yielded[i] = pAX /\ yielded[j] = pAjsonl => i < j
    /\ pAjsonl \in Range(yielded) /\ pAX \in ReachableFiles => pAX \in Range(yielded)

\* The file below a has been yielded, then its sibling a.jsonl.
C23_Witness == yielded = <<pAX, pAjsonl>>

\* How often the path has been yielded.
TimesYielded(p) == Cardinality({i \in DOMAIN yielded : yielded[i] = p})

\* C24: on a tree that does not change, a walk that runs to its end has
\* yielded every regular file reachable through listable directories that
\* are no links exactly once; no path that has been popped is pending
\* again, so no directory is listed twice; and what a directory is about
\* to push is neither pending nor popped.
C24_EachPathOnce ==
    /\ heap \cap popped = {}
    /\ listed \subseteq popped
    /\ Range(yielded) \subseteq popped
    /\ \A p \in Slots : TimesYielded(p) <= 1
    /\ pc = "walking" =>
          \A path \in HeapPop(heap) :
              LET it == next_iter(path, heap \ {path}) IN
              it.step = "expand" => read_dir(path).entries \cap (heap \cup popped) = {}
    /\ pc = "done" /\ result.kind = "none" =>
          \A p \in Slots : p \in ReachableFiles <=> TimesYielded(p) = 1

\* A walk over a directory with a file, and a file beside it, ran to its
\* end: both were yielded and the directory was listed.
C24_Witness ==
    /\ pc = "done" /\ result.kind = "none"
    /\ listed = {Root, pA}
    /\ Range(yielded) = {pAX, pBjson}
    /\ heap = {}

(***************************************************************************)
(* The order of read_dir.  The loop that pushes the entries of a listed    *)
(* directory is taken one entry at a time, in whatever order the system    *)
(* returns them.                                                           *)
(***************************************************************************)
\* A for_each over the entries that may end before the last entry is pushed.
for_loop_done_early(dir, h) == TRUE

\* rd.flatten().for_each(..) has pushed every entry.
for_loop_done(dir, h) == read_dir(dir).entries \subseteq h

\* The popped path is a directory and read_dir opens it.
ListBegin ==
    /\ pc = "walking"
    /\ \E path \in HeapPop(heap) :
          LET it == next_iter(path, heap \ {path}) IN
          /\ it.step = "expand"
          /\ heap' = heap \ {path}
          /\ cur' = path
          /\ listed' = listed \cup {path}
          /\ popped' = popped \cup {path}
    /\ pc' = "listing"
    /\ fsUnchanged
    /\ UNCHANGED <<yielded, opened, result, run, prev>>

\* self.heap.push(Reverse(entry.path())) for the entry the system returns
\* next, which is any entry not returned yet.
PushEntry ==
    /\ pc = "listing"
    /\ \E q \in read_dir(cur).entries \ heap : heap' = heap \cup {q}
    /\ fsUnchanged
    /\ UNCHANGED <<pc, cur, yielded, popped, listed, opened, result, run, prev>>

\* for_each returns and next() goes on with the next pop.
ListEnd ==
    /\ pc = "listing"
    /\ for_loop_done(cur, heap)
    /\ pc' = "walking"
    /\ cur' = <<>>
    /\ fsUnchanged
    /\ UNCHANGED <<heap, yielded, popped, listed, opened, result, run, prev>>

OrderNext ==
    \/ NewOk
    \/ NewErr
    \/ NextNoMeta
    \/ NextSymlink
    \/ NextUnlistable
    \/ NextOther
    \/ ListBegin
    \/ PushEntry
    \/ ListEnd
    \/ NextYield
    \/ NextExhausted
    \/ FilterDrop
    \/ Candidate
    \/ Again

\* The scan, run twice, with the entries of every directory returned in
\* any order.
OrderSpec == FairInit /\ [][OrderNext]_vars

\* C25: in whatever order read_dir returns the entries, the files yielded
\* are the reachable files in ascending order up to the last one yielded
\* (all of them when the walk ends without a session), and every run over
\* the tree returns what the runs before it returned.
C25_EnumerationOrderIsNoInput ==
    /\ \A i, j \in DOMAIN yielded : i < j => PathLess(yielded[i], yielded[j])
    /\ Range(yielded) \subseteq ReachableFiles
    /\ \A p \in ReachableFiles :
          (\E i \in DOMAIN yielded : PathLess(p, yielded[i])) => p \in Range(yielded)
    /\ pc = "done" /\ result.kind = "none" => Range(yielded) = ReachableFiles
    /\ pc = "done" /\ result.kind = "some" =>
          yielded[Len(yielded)] = result.source_jsonl
    /\ pc = "done" => \A i \in DOMAIN prev : prev[i] = result

\* In the second run the system returned b.jsonl before a.jsonl, whose
\* session the first run returned.
C25_Witness ==
    /\ run = 2 /\ pc = "listing" /\ cur = Root
    /\ heap = {pBjsonl}
    /\ pAjsonl \in read_dir(Root).entries
    /\ prev[1].kind = "some" /\ prev[1].source_jsonl = pAjsonl

\* C26: with a root that is a link to a listable directory, require_dir
\* accepts it and SortedWalk::new succeeds, but the walk pops the root,
\* skips it as a link, lists nothing and yields nothing: the call returns
\* Ok(None) whatever the directory behind the link holds.
C26_LinkedRootFindsNothing ==
    rootKind = "symDir" /\ opts.codexdir.s = PathStr(Root) =>
        /\ exit.error.label # "codexdir"
        /\ result.kind \notin {"err", "some"}
        /\ heap \subseteq {Root}
        /\ listed = {} /\ yielded = <<>> /\ opened = <<>>
        /\ pc = "walking" => heap = {Root} \/ popped = {Root}
        /\ pc = "done" => result = OkNone /\ popped = {Root}

\* The scan of a linked root ended with None although b.jsonl behind the
\* link holds a record of the branch.
C26_Witness ==
    /\ rootKind = "symDir" /\ opts.codexdir.s = PathStr(Root)
    /\ tree[pBjsonl] = FileNode("file", "match") /\ branch = bFx
    /\ pc = "done" /\ result = OkNone

(***************************************************************************)
(* A root that changes under the scan: between SortedWalk::new and the     *)
(* first next() another process removes the root or takes away the right   *)
(* to list it.                                                             *)
(***************************************************************************)
RootChanges ==
    /\ pc = "walking"
    /\ popped = {}
    /\ rootKind = "dir"
    /\ \/ rootKind' = "missing" /\ tree' = EmptyTree
       \/ rootKind' = "dirNoList" /\ tree' = tree
    /\ UNCHANGED <<branch, cliVars>>
    /\ UNCHANGED <<pc, heap, cur, yielded, popped, listed, opened, result, run, prev>>

RaceNext ==
    \/ NewOk
    \/ NewErr
    \/ RootChanges
    \/ NextNoMeta
    \/ NextSymlink
    \/ NextUnlistable
    \/ NextOther
    \/ NextExpand
    \/ NextYield
    \/ NextExhausted
    \/ FilterDrop
    \/ Candidate
    \/ Again

\* The scan beside a process that may remove the root.
RaceSpec == FairInit /\ [][RaceNext]_vars

\* A walker was made in this run, so the root could be listed then, and
\* the root cannot be listed now.
RootLostAfterNew ==
    /\ rootKind \in {"missing", "dirNoList"}
    /\ heap # {} \/ popped # {}

C28_NoFallbackToLaterSession ==
    env.cwd_is_dir = "no" =>
        /\ cpc = "exit" /\ exit.code = "failure"
        /\ exit.error.kind = "is not a directory"
        /\ exit.error.label = "session cwd"
        /\ exit.error.path = result.cwd
        /\ spawned = <<>> /\ stdout = <<>> /\ cmd = NoCmd
        /\ result.kind = "some"
        /\ opened # <<>> /\ opened[Len(opened)] = result.source_jsonl
        /\ \A p \in Candidates :
              PathLess(result.source_jsonl, p) => p \notin Range(opened) \cup popped

\* The session of a.jsonl has the cwd /v, which is no directory; b.jsonl
\* holds a record of the branch too, with another cwd, and was not read.
C28_Witness ==
    /\ cpc = "exit" /\ env.cwd_is_dir = "no"
    /\ result.source_jsonl = pAjsonl /\ result.cwd = <<"/", "v">>
    /\ Qualifies(pBjsonl)
    /\ Lines[tree[pBjsonl].content].cwd.s # Lines[tree[pAjsonl].content].cwd.s
    /\ pBjsonl \notin Range(opened)

\* Something was printed or a process was spawned.
Launched == stdout # <<>> \/ spawned # <<>>

\* C29: a command is printed or a process spawned only after the codexdir
\* was resolved, the repo and then the codexdir were found to be
\* directories, a session matched and its cwd was found to be a
\* directory; a step is taken only when the steps before it succeeded,
\* and the step that fails ends the run with its error: the scan, the
\* build and the launch that would follow are not performed.
C29_StepsInOrder ==
    /\ Launched =>
          /\ opts.codexdir.has
          /\ env.repo_is_dir = "yes"
          /\ CodexdirIsDirectory
          /\ result.kind = "some"
          /\ env.cwd_is_dir = "yes"
          /\ cmd # NoCmd
    /\ env.repo_is_dir # "?" => opts.codexdir.has
    /\ pc # "idle" => env.repo_is_dir = "yes" /\ CodexdirIsDirectory
    /\ env.cwd_is_dir # "?" => pc = "done" /\ result.kind = "some"
    /\ cmd # NoCmd => env.cwd_is_dir = "yes"
    /\ exit.error.kind = "$HOME is empty" =>
          env.repo_is_dir = "?" /\ pc = "idle" /\ cpc = "exit"
    /\ env.repo_is_dir = "no" =>
          exit.error.label = "repo" /\ pc = "idle" /\ cpc = "exit"
    /\ exit.error.label = "codexdir" => pc = "idle" /\ cpc = "exit"
    /\ cpc = "exit" /\ result.kind \in {"err", "none"} =>
          exit.code = "failure" /\ env.cwd_is_dir = "?"
    /\ env.cwd_is_dir = "no" => exit.error.label = "session cwd" /\ cpc = "exit"
    /\ exit.code = "failure" /\ spawned = <<>> => cmd = NoCmd /\ stdout = <<>>
    /\ pc = "idle" => popped = {} /\ opened = <<>> /\ result = Pending

\* A process was spawned: every step before it succeeded.
C29_Witness ==
    /\ cpc = "exit" /\ spawned # <<>>
    /\ env.repo_is_dir = "yes" /\ env.cwd_is_dir = "yes" /\ result.kind = "some"

\* The paths that follow --add-dir in the arguments, in their order.
RECURSIVE AddDirs(_)
AddDirs(a) ==
    IF Len(a) < 2 THEN <<>>
    ELSE IF Head(a) = W("--add-dir") THEN <<a[2]>> \o AddDirs(Tail(Tail(a)))
    ELSE AddDirs(Tail(a))

\* The optional directories that exist, by what was found of the file
\* system when the command was built.
ExistingOptionalDirs ==
    (IF env.facts.repo_git = "dir" THEN {join(opts.repo, W(".git"))} ELSE {})
    \cup (IF env.facts.cwd_git = "dir" THEN {join(result.cwd, W(".git"))} ELSE {})
    \cup (IF "gitfile" \in {env.facts.repo_git, env.facts.cwd_git} THEN {gitdirPath} ELSE {})
    \cup (IF env.facts.cwd_codex THEN {join(result.cwd, W(".codex"))} ELSE {})
    \cup env.facts.sandbox

HomeRelativeDirs == {join(homePath, HOME_SANDBOX_DIRS[i]) : i \in DOMAIN HOME_SANDBOX_DIRS}

\* C30: the command built has the program codex, ends with resume and the
\* session id, holds --cd once, followed by the session cwd, and holds
\* --add-dir for the repo, the codexdir and the session cwd in that order,
\* whether they exist or not; every other directory added is an optional
\* directory that exists, and a directory below the home is added only
\* when a home is known.
C30_CommandShape ==
    cmd # NoCmd =>
        LET a == cmd.args
            n == Len(cmd.args)
            dirs == AddDirs(cmd.args)
        IN  /\ cmd.program = W("codex")
            /\ n >= 2 /\ a[n - 1] = W("resume") /\ a[n] = result.id
            /\ Cardinality({i \in 1..n : a[i] = W("--cd")}) = 1
            /\ \A i \in 1..n : a[i] = W("--cd") => i < n /\ a[i + 1] = result.cwd
            /\ \A i \in 1..n : a[i] = W("--add-dir") => i < n - 2
            /\ \E i, j, k \in DOMAIN dirs :
                  /\ i < j /\ j < k
                  /\ dirs[i] = opts.repo /\ dirs[j] = opts.codexdir.s /\ dirs[k] = result.cwd
                  /\ \A m \in DOMAIN dirs \ {i, j, k} : dirs[m] \in ExistingOptionalDirs
            /\ \A m \in DOMAIN dirs : dirs[m] \in HomeRelativeDirs => env.HOME = "set"

\* A command was built without a home, while .cargo below the home and
\* /tmp exist and the git directory of the repo is a directory.
C30_Witness ==
    /\ cmd # NoCmd /\ env.HOME = "unset"
    /\ env.facts.repo_git = "dir"
    /\ join(homePath, W(".cargo")) \in env.facts.sandbox
    /\ AddDirs(cmd.args) =
          <<opts.repo, join(opts.repo, W(".git")), opts.codexdir.s, result.cwd,
            gitdirPath, join(result.cwd, W(".codex")), W("/tmp")>>

====
